---- MODULE Spec2Model ----
(***************************************************************************)
(* The notebook docs/notebooks/9g_ReflectedPhaseCurve.ipynb as a state     *)
(* machine.  The notebook is a linear script: every code cell is a run of  *)
(* statements executed top to bottom in one Python namespace.  The state   *)
(* is that namespace (one variable per Python global the script binds),    *)
(* the objects the globals refer to (xarray datasets in `heap', picaso      *)
(* inputs objects in `objs'), the position of the interpreter (`pc', the   *)
(* notebook line of the next statement) and the trace of picaso calls made  *)
(* so far (`calls').                                                       *)
(*                                                                         *)
(* Numbers.  Longitudes and latitudes are whole degrees.  Pressures are in *)
(* units of 1e-6 bar, so 0.00001 bar is 10 and 0.01 bar is 10000.  Mixing   *)
(* ratios are in units of 1/(10*RandRes), so 0.1 is RandRes and 1 is       *)
(* 10*RandRes.  np.linspace(a,b,n) is kept in units of 1/(n-1).            *)
(***************************************************************************)
EXTENDS Integers, Sequences, FiniteSets, TLC

VARIABLES
  pc,                \* notebook line of the next statement to run; 0 at the end
  status,            \* "running", or "error" once a statement has raised
  heap,              \* the xarray datasets allocated so far, by reference
  objs,              \* the picaso inputs objects allocated so far, by reference
  calls,             \* the picaso inputs-method calls made so far, in order
  opacity,           \* Python globals, named as in the notebook ...
  gcm_out, all_gcm, ds_chem, ds_cld,
  lon, lat, pres, wno_grid,
  fake_chem_H2O, fake_chem_H2,
  fake_opd, fake_asymmetry_g0, fake_ssa_w0,
  where_lat, where_lon, where_pres,
  it,                \* number of completed passes of the innermost fill loop body
  case_3d, case_3d_clouds,
  n_phases, phase_grid,
  allout, allout_clouds,
  all_curves, all_curves_clouds

vars == <<pc, status, heap, objs, calls, opacity, gcm_out, all_gcm, ds_chem,
          ds_cld, lon, lat, pres, wno_grid, fake_chem_H2O, fake_chem_H2,
          fake_opd, fake_asymmetry_g0, fake_ssa_w0, where_lat, where_lon,
          where_pres, it, case_3d, case_3d_clouds, n_phases, phase_grid,
          allout, allout_clouds, all_curves, all_curves_clouds>>

\* ------------------------------------------------------------------ bounds

\* The GCM grid returned by HJ_pt_3d has at most this many (lon,lat,pressure) cells.
MaxCells == 4

\* np.random.rand draws k/RandRes, k in 0..RandRes-1 (a value of [0,1)).
RandRes == 2

\* ------------------------------------------------------------- Python values

\* An unbound name / an unset option, and a set one.
None == <<>>
Some(x) == <<x>>

\* The frame: every variable not named in `changed' keeps its value.
Frame(changed) ==
  /\ ("heap" \in changed \/ heap' = heap)
  /\ ("objs" \in changed \/ objs' = objs)
  /\ ("calls" \in changed \/ calls' = calls)
  /\ ("opacity" \in changed \/ opacity' = opacity)
  /\ ("gcm_out" \in changed \/ gcm_out' = gcm_out)
  /\ ("all_gcm" \in changed \/ all_gcm' = all_gcm)
  /\ ("ds_chem" \in changed \/ ds_chem' = ds_chem)
  /\ ("ds_cld" \in changed \/ ds_cld' = ds_cld)
  /\ ("lon" \in changed \/ lon' = lon)
  /\ ("lat" \in changed \/ lat' = lat)
  /\ ("pres" \in changed \/ pres' = pres)
  /\ ("wno_grid" \in changed \/ wno_grid' = wno_grid)
  /\ ("fake_chem_H2O" \in changed \/ fake_chem_H2O' = fake_chem_H2O)
  /\ ("fake_chem_H2" \in changed \/ fake_chem_H2' = fake_chem_H2)
  /\ ("fake_opd" \in changed \/ fake_opd' = fake_opd)
  /\ ("fake_asymmetry_g0" \in changed \/ fake_asymmetry_g0' = fake_asymmetry_g0)
  /\ ("fake_ssa_w0" \in changed \/ fake_ssa_w0' = fake_ssa_w0)
  /\ ("where_lat" \in changed \/ where_lat' = where_lat)
  /\ ("where_lon" \in changed \/ where_lon' = where_lon)
  /\ ("where_pres" \in changed \/ where_pres' = where_pres)
  /\ ("it" \in changed \/ it' = it)
  /\ ("case_3d" \in changed \/ case_3d' = case_3d)
  /\ ("case_3d_clouds" \in changed \/ case_3d_clouds' = case_3d_clouds)
  /\ ("n_phases" \in changed \/ n_phases' = n_phases)
  /\ ("phase_grid" \in changed \/ phase_grid' = phase_grid)
  /\ ("allout" \in changed \/ allout' = allout)
  /\ ("allout_clouds" \in changed \/ allout_clouds' = allout_clouds)
  /\ ("all_curves" \in changed \/ all_curves' = all_curves)
  /\ ("all_curves_clouds" \in changed \/ all_curves_clouds' = all_curves_clouds)

\* --------------------------------------------------------------- the script

\* Mutant of Script: the cloudless phase_curve cell placed before the star call.
ScriptPhaseCurveBeforeStar ==
  <<62, 71, 92, 96, 97, 100, 113, 124,
    144, 146, 153, 177, 196, 214, 241, 232, 216, 258, 284,
    315, 322, 323, 326, 332, 336, 369,
    387, 389, 397, 398, 400, 404, 420, 422, 424, 438, 439, 458, 488, 0>>

\* Mutant of Script: clouds_4d placed before atmosphere_4d in the cloudy cell.
ScriptCloudsBeforeAtmosphere ==
  <<62, 71, 92, 96, 97, 100, 113, 124,
    144, 146, 153, 177, 196, 214, 216, 232, 241, 258, 284,
    315, 322, 323, 326, 332, 336, 369,
    387, 389, 397, 398, 404, 400, 420, 422, 424, 438, 439, 458, 488, 0>>

\* The statements of the code cells in notebook order, each named by the
\* notebook line it starts on; 0 is the end of the notebook.
Script == <<62, 71, 92, 96, 97, 100, 113, 124,
            144, 146, 153, 177, 196, 214, 216, 232, 241, 258, 284,
            315, 322, 323, 326, 332, 336, 369,
            387, 389, 397, 398, 400, 404, 420, 422, 424, 438, 439, 458, 488, 0>>

\* The statement after statement p.
Succ(p) == Script[(CHOOSE i \in 1..Len(Script) : Script[i] = p) + 1]

\* The statements that call into picaso, xarray or the plotting libraries.
LibraryCalls == {62, 71, 100, 113, 124, 144, 153, 177, 214, 216, 241, 258, 284,
                 336, 369, 387, 397, 400, 404, 420, 422, 424, 438, 439, 458, 488}

\* Mutant of At: the script carries on after a statement has raised.
AtIgnoringErrors(p) == pc = p

\* Statement p is the next one and nothing has raised.
At(p) == pc = p /\ status = "running"

\* Control moves to the next statement.
Step == pc' = Succ(pc) /\ status' = status

\* ------------------------------------------------------------------- numpy

\* The index sets of a 3-d and of a 4-d array of the given shape.
Idx3(a, b, c) == (1..a) \X (1..b) \X (1..c)
Idx4(a, b, c, d) == (1..a) \X (1..b) \X (1..c) \X (1..d)

\* np.zeros(n): a 1-d array of n zeros.
zeros(n) == [i \in 1..n |-> 0]

\* np.zeros(shape) for a 4-d shape, and v + np.zeros(shape).
full4(a, b, c, d, v) == [x \in Idx4(a, b, c, d) |-> v]

\* np.linspace(a, b, n), n >= 2, in units of 1/(n-1): entry i is a + (i-1)(b-a)/(n-1).
linspace(a, b, n) == [i \in 1..n |-> a * (n - 1) + (i - 1) * (b - a)]

\* The elements of a set of integers in increasing order.
RECURSIVE Sorted(_)
Sorted(S) ==
  IF S = {} THEN <<>>
  ELSE LET m == CHOOSE x \in S : \A y \in S : x <= y
       IN <<m>> \o Sorted(S \ {m})

\* np.where(mask)[0] for a 1-d boolean array: the indices of its true entries, increasing.
where(mask) == Sorted({i \in 1..Len(mask) : mask[i]})

\* a[:-1]
ButLast(a) == SubSeq(a, 1, Len(a) - 1)

\* 0.1 and 1 in mixing-ratio units of 1/(10*RandRes).
Tenth == RandRes
One == 10 * RandRes

\* np.random.rand(...)*0.1+0.1 for one cell whose draw is k/RandRes.
H2O_of(k) == k + Tenth

\* Mutant of H2_of: H2 set to 0.9 whatever the H2O draw.
H2_fixed(x) == 9 * Tenth

\* 1-fake_chem_H2O for one cell.
H2_of(x) == One - x

\* ------------------------------------------------------------------ xarray

\* xr.Dataset(data_vars=..., coords=...).
Dataset(data_vars, coords) == [data_vars |-> data_vars, coords |-> coords]

\* One data variable: (dims, data, attrs).
DataVar(dims, data, units) == [dims |-> dims, data |-> data, units |-> units]

\* Dataset.update(other) on the dataset's contents: other's variables and
\* coordinates replace or extend the dataset's own.
Merged(d, o) ==
  [data_vars |-> [n \in DOMAIN d.data_vars \cup DOMAIN o.data_vars |->
                    IF n \in DOMAIN o.data_vars THEN o.data_vars[n] ELSE d.data_vars[n]],
   coords |-> [n \in DOMAIN d.coords \cup DOMAIN o.coords |->
                    IF n \in DOMAIN o.coords THEN o.coords[n] ELSE d.coords[n]]]

\* ------------------------------------------------------------ the GCM input

\* Axis values a GCM grid is cut from: windows of these sequences.
LonAxis == <<-90, -60, -30, 0>>
LatAxis == <<-50, -20, 20, 50>>
PresAxis == <<10, 100, 10000, 100000>>

Windows(axis, n) == {SubSeq(axis, s, s + n - 1) : s \in 1..(Len(axis) - n + 1)}

\* The grids HJ_pt_3d may return: increasing axes, and at least two pressure
\* levels (the script indexes level 34 and drops the last level for the clouds).
Grids ==
  {g \in UNION {Windows(LonAxis, a) \X Windows(LatAxis, b) \X Windows(PresAxis, c) :
                  <<a, b, c>> \in Idx3(Len(LonAxis), Len(LatAxis), Len(PresAxis))} :
     Len(g[3]) >= 2 /\ Len(g[1]) * Len(g[2]) * Len(g[3]) <= MaxCells}

\* jdi.HJ_pt_3d(as_xarray=True) on grid g: a dataset with a temperature field.
HJ_pt_3d(g) ==
  Dataset([temperature |-> DataVar(<<"lon", "lat", "pressure">>,
                                   [x \in Idx3(Len(g[1]), Len(g[2]), Len(g[3])) |-> "K"],
                                   "Kelvin")],
          [lon |-> g[1], lat |-> g[2], pressure |-> g[3]])

\* -------------------------------------------------------------------- Init

Init ==
  /\ pc = Script[1]
  /\ status = "running"
  /\ heap = <<>>
  /\ objs = <<>>
  /\ calls = <<>>
  /\ opacity = None
  /\ gcm_out = 0 /\ all_gcm = 0 /\ ds_chem = 0 /\ ds_cld = 0
  /\ lon = None /\ lat = None /\ pres = None /\ wno_grid = None
  /\ fake_chem_H2O = None /\ fake_chem_H2 = None
  /\ fake_opd = None /\ fake_asymmetry_g0 = None /\ fake_ssa_w0 = None
  /\ where_lat = None /\ where_lon = None /\ where_pres = None
  /\ it = 0
  /\ case_3d = 0 /\ case_3d_clouds = 0
  /\ n_phases = 0 /\ phase_grid = None
  /\ allout = None /\ allout_clouds = None
  /\ all_curves = None /\ all_curves_clouds = None

\* ------------------------------------------ cells: opacity, GCM, chemistry

\* opacity = jdi.opannection(wave_range=[0.50,0.90], resample=100)
LoadOpacity ==
  /\ At(62)
  /\ opacity' = Some([wave_range |-> <<50, 90>>, resample |-> 100])
  /\ Step
  /\ Frame({"opacity"})

\* gcm_out = jdi.HJ_pt_3d(as_xarray=True)
LoadGcm ==
  /\ At(71)
  /\ \E g \in Grids :
       /\ heap' = Append(heap, HJ_pt_3d(g))
       /\ gcm_out' = Len(heap) + 1
  /\ Step
  /\ Frame({"heap", "gcm_out"})

\* lon, lat, pres = the coordinates of gcm_out
CreateCoords ==
  /\ At(92)
  /\ lon' = heap[gcm_out].coords.lon
  /\ lat' = heap[gcm_out].coords.lat
  /\ pres' = heap[gcm_out].coords.pressure
  /\ Step
  /\ Frame({"lon", "lat", "pres"})

\* fake_chem_H2O = np.random.rand(len(lon), len(lat), len(pres))*0.1+0.1
DrawChem ==
  /\ At(96)
  /\ \E r \in [Idx3(Len(lon), Len(lat), Len(pres)) -> 0..(RandRes - 1)] :
       fake_chem_H2O' = [x \in DOMAIN r |-> H2O_of(r[x])]
  /\ Step
  /\ Frame({"fake_chem_H2O"})

\* fake_chem_H2 = 1-fake_chem_H2O
ComplementChem ==
  /\ At(97)
  /\ fake_chem_H2' = [x \in DOMAIN fake_chem_H2O |-> H2_of(fake_chem_H2O[x])]
  /\ Step
  /\ Frame({"fake_chem_H2"})

\* The arguments of ds_chem = jdi.xr.Dataset(...).
ChemDataset ==
  Dataset([H2O |-> DataVar(<<"lon", "lat", "pressure">>, fake_chem_H2O, "v/v"),
           H2 |-> DataVar(<<"lon", "lat", "pressure">>, fake_chem_H2, "v/v")],
          [lon |-> lon, lat |-> lat, pressure |-> pres])

\* ds_chem = jdi.xr.Dataset(data_vars=dict(H2O=..., H2=...), coords=dict(...))
BuildDsChem ==
  /\ At(100)
  /\ heap' = Append(heap, ChemDataset)
  /\ ds_chem' = Len(heap) + 1
  /\ Step
  /\ Frame({"heap", "ds_chem"})

\* all_gcm = gcm_out.update(ds_chem): the update is in place and returns the
\* dataset it updated, so all_gcm and gcm_out name one object.
UpdateGcm ==
  /\ At(113)
  /\ heap' = [heap EXCEPT ![gcm_out] = Merged(heap[gcm_out], heap[ds_chem])]
  /\ all_gcm' = gcm_out
  /\ Step
  /\ Frame({"heap", "all_gcm"})

\* A statement that only displays or plots: it binds nothing the script reads
\* again.  124: temperature map; 196, 232, 398: show the profile; 284, 488:
\* phase-resolved spectra; 369: cloud map; 458: the comparison figure.
DisplayStatements == {124, 196, 232, 284, 369, 398, 458, 488}

Display ==
  /\ pc \in DisplayStatements
  /\ status = "running"
  /\ Step
  /\ Frame({})

\* A library call raises: the exception is not caught anywhere in the script,
\* so the statement binds nothing and execution stops there.
Raise ==
  /\ pc \in LibraryCalls
  /\ status = "running"
  /\ status' = "error"
  /\ pc' = pc
  /\ Frame({})

\* ------------------------------------------------------------------ picaso

\* jdi.inputs(): a fresh configuration with nothing set.
NewInputs == [geometry |-> None, atmosphere |-> None, clouds |-> None,
              gravity |-> None, star |-> None]

\* A method call obj.fn(args) that stores its arguments under `field' of the
\* object's configuration and is appended to the trace of calls.
Method(o, fn, field, args, stored) ==
  /\ objs' = [objs EXCEPT ![o] = [@ EXCEPT ![field] = Some(stored)]]
  /\ calls' = Append(calls, [obj |-> o, fn |-> fn, args |-> args])

\* obj.phase_curve_geometry(calculation, phase_grid=, num_gangle=, num_tangle=)
phase_curve_geometry(o, args) == Method(o, "phase_curve_geometry", "geometry", args, args)

\* obj.atmosphere_4d(ds, shift=, zero_point=, plot=, verbose=): the profile is
\* built from the contents the dataset has at the time of the call.
atmosphere_4d(o, args) ==
  Method(o, "atmosphere_4d", "atmosphere", args,
         [profile |-> heap[args.ds], shift |-> args.shift, zero_point |-> args.zero_point])

\* obj.clouds_4d(ds, iz_plot=, plot=)
clouds_4d(o, args) ==
  Method(o, "clouds_4d", "clouds", args, [profile |-> heap[args.ds]])

\* obj.gravity(radius=, radius_unit=, mass=, mass_unit=)
gravity(o, args) == Method(o, "gravity", "gravity", args, args)

\* obj.star(opacity, temp, metal, logg, radius=, radius_unit=, semi_major=, semi_major_unit=)
star(o, args) == Method(o, "star", "star", args, args)

\* obj.phase_curve(opacity, n_cpu=, full_output=): one spectrum per phase of the
\* object's geometry, computed from the object's configuration at the call.
phase_curve(o, args) ==
  [phases |-> IF objs[o].geometry = None THEN None ELSE objs[o].geometry[1].phase_grid,
   config |-> objs[o],
   full_output |-> args.full_output]

\* jpi.phase_curve(allout, to_plot, collapse=, R=, ...): the curve of one result;
\* `cloudy' records whether the configuration it was computed from had clouds mapped.
curve(out) == [to_plot |-> "fpfs_reflected", collapse |-> "np.mean",
               phases |-> out.phases, cloudy |-> out.config.clouds # None]

\* ------------------------------------------------ cells: cloudless pipeline

\* case_3d = jdi.inputs()
NewCase3d ==
  /\ At(144)
  /\ objs' = Append(objs, NewInputs)
  /\ case_3d' = Len(objs) + 1
  /\ Step
  /\ Frame({"objs", "case_3d"})

\* n_phases = 8; min_phase = 0; max_phase = 2*np.pi;
\* phase_grid = np.linspace(min_phase,max_phase,n_phases), in units of 2*pi/360.
SetPhaseGrid ==
  /\ At(146)
  /\ n_phases' = 8
  /\ phase_grid' = linspace(0, 360, 8)
  /\ Step
  /\ Frame({"n_phases", "phase_grid"})

\* Mutant of GeometryArgs: a 5 x 5 disc.
GeometryArgsCoarse ==
  [calculation |-> "reflected", phase_grid |-> phase_grid, num_gangle |-> 5, num_tangle |-> 5]

\* The arguments of case_3d.phase_curve_geometry(...).
GeometryArgs ==
  [calculation |-> "reflected", phase_grid |-> phase_grid, num_gangle |-> 6, num_tangle |-> 6]

\* case_3d.phase_curve_geometry('reflected', phase_grid=phase_grid, num_gangle=6, num_tangle=6)
Geometry ==
  /\ At(153)
  /\ phase_curve_geometry(case_3d, GeometryArgs)
  /\ Step
  /\ Frame({"objs", "calls"})

\* Mutant of AtmosphereArgs: zero_point left at 'night_transit'.
AtmosphereArgsNightTransit ==
  [ds |-> all_gcm, shift |-> zeros(n_phases), zero_point |-> "night_transit",
   plot |-> TRUE, verbose |-> FALSE]

\* The arguments of case_3d.atmosphere_4d(...).
AtmosphereArgs ==
  [ds |-> all_gcm, shift |-> zeros(n_phases), zero_point |-> "secondary_eclipse",
   plot |-> TRUE, verbose |-> FALSE]

\* case_3d.atmosphere_4d(all_gcm, shift = np.zeros(n_phases),
\*                       zero_point='secondary_eclipse', plot=True, verbose=False)
Atmosphere ==
  /\ At(177)
  /\ atmosphere_4d(case_3d, AtmosphereArgs)
  /\ Step
  /\ Frame({"objs", "calls"})

\* The arguments of case_3d.gravity(...).
GravityArgs == [radius |-> 1, radius_unit |-> "R_jup", mass |-> 1, mass_unit |-> "M_jup"]

\* case_3d.gravity(radius=1, radius_unit=R_jup, mass=1, mass_unit=M_jup)
Gravity ==
  /\ At(214)
  /\ gravity(case_3d, GravityArgs)
  /\ Step
  /\ Frame({"objs", "calls"})

\* The arguments of case_3d.star(...); logg 4.0 in tenths, semi_major 0.06 in hundredths.
StarArgs ==
  [opacity |-> opacity, temp |-> 5000, metal |-> 0, logg |-> 40, radius |-> 1,
   radius_unit |-> "R_sun", semi_major |-> 6, semi_major_unit |-> "au"]

\* case_3d.star(opacity,5000,0,4.0, radius=1, radius_unit=R_sun, semi_major=0.06, semi_major_unit=au)
Star ==
  /\ At(216)
  /\ star(case_3d, StarArgs)
  /\ Step
  /\ Frame({"objs", "calls"})

\* The arguments of case_3d.phase_curve(...).
PhaseCurveArgs == [opacity |-> opacity, n_cpu |-> 3, full_output |-> TRUE]

\* allout = case_3d.phase_curve(opacity, n_cpu = 3, full_output=True)
PhaseCurve ==
  /\ At(241)
  /\ allout' = Some(phase_curve(case_3d, PhaseCurveArgs))
  /\ calls' = Append(calls, [obj |-> case_3d, fn |-> "phase_curve", args |-> PhaseCurveArgs])
  /\ Step
  /\ Frame({"allout", "calls"})

\* phases, all_curves, all_ws, fig = jpi.phase_curve(allout, to_plot, collapse=collapse, R=10, ...)
PlotCurve ==
  /\ At(258)
  /\ all_curves' = Some(curve(allout[1]))
  /\ Step
  /\ Frame({"all_curves"})

\* ------------------------------------------------- cells: the cloud model

\* lon, lat = the GCM's; pres = gcm_out.coords.get('pressure').values[:-1];
\* wno_grid = np.linspace(33333,1e4,10)
CloudCoords ==
  /\ At(315)
  /\ lon' = heap[gcm_out].coords.lon
  /\ lat' = heap[gcm_out].coords.lat
  /\ pres' = ButLast(heap[gcm_out].coords.pressure)
  /\ wno_grid' = linspace(33333, 10000, 10)
  /\ Step
  /\ Frame({"lon", "lat", "pres", "wno_grid"})

\* fake_opd = np.zeros((len(lon), len(lat),len(pres), len(wno_grid)))
ZeroOpd ==
  /\ At(322)
  /\ fake_opd' = full4(Len(lon), Len(lat), Len(pres), Len(wno_grid), 0)
  /\ Step
  /\ Frame({"fake_opd"})

\* The masks of the three np.where calls.
lat_band(v) == v > -50 /\ v < 50
lon_band(v) == v > -90 /\ v < 0
pres_band(v) == v < 10000 /\ v > 10

\* where_lat = np.where(((lat>-50) & (lat<50)))
\* where_lon = np.where(((lon>-90) & (lon<0)))
\* where_pres = np.where(((pres<0.01) & (pres>.00001)))
Where ==
  /\ At(323)
  /\ where_lat' = where([i \in 1..Len(lat) |-> lat_band(lat[i])])
  /\ where_lon' = where([i \in 1..Len(lon) |-> lon_band(lon[i])])
  /\ where_pres' = where([i \in 1..Len(pres) |-> pres_band(pres[i])])
  /\ it' = 0
  /\ Step
  /\ Frame({"where_lat", "where_lon", "where_pres", "it"})

\* The number of passes of the innermost loop body, and the loop variables
\* (il, ilon, ip) of pass number k (from 0): il is the outer loop, ip the inner.
FillPasses == Len(where_lat) * Len(where_lon) * Len(where_pres)
FillIl(k) == where_lat[(k \div (Len(where_lon) * Len(where_pres))) + 1]
FillIlon(k) == where_lon[((k \div Len(where_pres)) % Len(where_lon)) + 1]
FillIp(k) == where_pres[(k % Len(where_pres)) + 1]

\* Mutant of FillAssign: the latitude index on the longitude axis, fake_opd[il,ilon,ip,:]=10.
FillAssignSwapped(a, il, ilon, ip) ==
  [x \in DOMAIN a |-> IF x[1] = il /\ x[2] = ilon /\ x[3] = ip THEN 10 ELSE a[x]]

\* fake_opd[ilon,il,ip,:]=10 on array a.
FillAssign(a, il, ilon, ip) ==
  [x \in DOMAIN a |-> IF x[1] = ilon /\ x[2] = il /\ x[3] = ip THEN 10 ELSE a[x]]

\* One pass of: for il in where_lat[0]: for ilon in where_lon[0]:
\*                for ip in where_pres[0]: fake_opd[ilon,il,ip,:]=10
FillStep ==
  /\ At(326)
  /\ it < FillPasses
  /\ fake_opd' = FillAssign(fake_opd, FillIl(it), FillIlon(it), FillIp(it))
  /\ it' = it + 1
  /\ pc' = pc /\ status' = status
  /\ Frame({"fake_opd", "it"})

\* The loops are exhausted.
FillExit ==
  /\ At(326)
  /\ it = FillPasses
  /\ Step
  /\ Frame({})

\* fake_asymmetry_g0 = 0.5 + np.zeros(shape); fake_ssa_w0 = 0.9 + np.zeros(shape), in tenths
MakeScattering ==
  /\ At(332)
  /\ fake_asymmetry_g0' = full4(Len(lon), Len(lat), Len(pres), Len(wno_grid), 5)
  /\ fake_ssa_w0' = full4(Len(lon), Len(lat), Len(pres), Len(wno_grid), 9)
  /\ Step
  /\ Frame({"fake_asymmetry_g0", "fake_ssa_w0"})

\* The arguments of ds_cld = xr.Dataset(...).
CloudDataset ==
  Dataset([opd |-> DataVar(<<"lon", "lat", "pressure", "wno">>, fake_opd, "depth per layer"),
           g0 |-> DataVar(<<"lon", "lat", "pressure", "wno">>, fake_asymmetry_g0, "none"),
           w0 |-> DataVar(<<"lon", "lat", "pressure", "wno">>, fake_ssa_w0, "none")],
          [lon |-> lon, lat |-> lat, pressure |-> pres, wno |-> wno_grid])

\* ds_cld = xr.Dataset(data_vars=dict(opd=..., g0=..., w0=...), coords=dict(...))
BuildDsCld ==
  /\ At(336)
  /\ heap' = Append(heap, CloudDataset)
  /\ ds_cld' = Len(heap) + 1
  /\ Step
  /\ Frame({"heap", "ds_cld"})

\* --------------------------------------------------- cells: cloudy pipeline

\* case_3d_clouds = jdi.inputs()
NewCase3dClouds ==
  /\ At(387)
  /\ objs' = Append(objs, NewInputs)
  /\ case_3d_clouds' = Len(objs) + 1
  /\ Step
  /\ Frame({"objs", "case_3d_clouds"})

\* n_phases = 8; min_phase = 0; max_phase = 2*np.pi;
\* phase_grid = np.linspace(min_phase,max_phase,n_phases)
SetPhaseGridClouds ==
  /\ At(389)
  /\ n_phases' = 8
  /\ phase_grid' = linspace(0, 360, 8)
  /\ Step
  /\ Frame({"n_phases", "phase_grid"})

\* The arguments of case_3d_clouds.phase_curve_geometry(...).
GeometryArgsClouds ==
  [calculation |-> "reflected", phase_grid |-> phase_grid, num_gangle |-> 6, num_tangle |-> 6]

\* case_3d_clouds.phase_curve_geometry('reflected', phase_grid=phase_grid, num_gangle=6, num_tangle=6)
GeometryClouds ==
  /\ At(397)
  /\ phase_curve_geometry(case_3d_clouds, GeometryArgsClouds)
  /\ Step
  /\ Frame({"objs", "calls"})

\* Mutant of AtmosphereArgsClouds: a shift that grows with the phase.
AtmosphereArgsCloudsShifted ==
  [ds |-> gcm_out, shift |-> [i \in 1..n_phases |-> 10 * (i - 1)],
   zero_point |-> "secondary_eclipse", plot |-> TRUE, verbose |-> FALSE]

\* The arguments of case_3d_clouds.atmosphere_4d(...).
AtmosphereArgsClouds ==
  [ds |-> gcm_out, shift |-> zeros(n_phases), zero_point |-> "secondary_eclipse",
   plot |-> TRUE, verbose |-> FALSE]

\* case_3d_clouds.atmosphere_4d(gcm_out, shift = np.zeros(n_phases),
\*                              zero_point='secondary_eclipse', plot=True, verbose=False)
AtmosphereClouds ==
  /\ At(400)
  /\ atmosphere_4d(case_3d_clouds, AtmosphereArgsClouds)
  /\ Step
  /\ Frame({"objs", "calls"})

\* Mutant of CloudsTarget: clouds_4d called on the cloudless object.
CloudsOnCloudless == case_3d

\* The object and the arguments of the clouds_4d call.
CloudsTarget == case_3d_clouds
CloudsArgs == [ds |-> ds_cld, iz_plot |-> 34, plot |-> TRUE]

\* case_3d_clouds.clouds_4d(ds_cld, iz_plot=34, plot=True)
Clouds ==
  /\ At(404)
  /\ clouds_4d(CloudsTarget, CloudsArgs)
  /\ Step
  /\ Frame({"objs", "calls"})

\* The arguments of case_3d_clouds.gravity(...).
GravityArgsClouds == [radius |-> 1, radius_unit |-> "R_jup", mass |-> 1, mass_unit |-> "M_jup"]

\* case_3d_clouds.gravity(radius=1, radius_unit=R_jup, mass=1, mass_unit=M_jup)
GravityClouds ==
  /\ At(420)
  /\ gravity(case_3d_clouds, GravityArgsClouds)
  /\ Step
  /\ Frame({"objs", "calls"})

\* The arguments of case_3d_clouds.star(...).
StarArgsClouds ==
  [opacity |-> opacity, temp |-> 5000, metal |-> 0, logg |-> 40, radius |-> 1,
   radius_unit |-> "R_sun", semi_major |-> 6, semi_major_unit |-> "au"]

\* case_3d_clouds.star(opacity,5000,0,4.0, radius=1, radius_unit=R_sun, semi_major=0.06, ...)
StarClouds ==
  /\ At(422)
  /\ star(case_3d_clouds, StarArgsClouds)
  /\ Step
  /\ Frame({"objs", "calls"})

\* The arguments of case_3d_clouds.phase_curve(...).
PhaseCurveArgsClouds == [opacity |-> opacity, n_cpu |-> 3, full_output |-> FALSE]

\* allout_clouds = case_3d_clouds.phase_curve(opacity, n_cpu = 3, full_output=False)
PhaseCurveClouds ==
  /\ At(424)
  /\ allout_clouds' = Some(phase_curve(case_3d_clouds, PhaseCurveArgsClouds))
  /\ calls' = Append(calls, [obj |-> case_3d_clouds, fn |-> "phase_curve",
                             args |-> PhaseCurveArgsClouds])
  /\ Step
  /\ Frame({"allout_clouds", "calls"})

\* phases, all_curves, all_ws, fig = jpi.phase_curve(allout, to_plot, ...)
ReplotCurve ==
  /\ At(438)
  /\ all_curves' = Some(curve(allout[1]))
  /\ Step
  /\ Frame({"all_curves"})

\* phases_clouds, all_curves_clouds, ... = jpi.phase_curve(allout_clouds, to_plot, ...)
PlotCurveClouds ==
  /\ At(439)
  /\ all_curves_clouds' = Some(curve(allout_clouds[1]))
  /\ Step
  /\ Frame({"all_curves_clouds"})

\* --------------------------------------------------------- the specification

Next ==
  \/ LoadOpacity \/ LoadGcm \/ CreateCoords \/ DrawChem \/ ComplementChem
  \/ BuildDsChem \/ UpdateGcm
  \/ NewCase3d \/ SetPhaseGrid \/ Geometry \/ Atmosphere \/ Gravity \/ Star
  \/ PhaseCurve \/ PlotCurve
  \/ CloudCoords \/ ZeroOpd \/ Where \/ FillStep \/ FillExit \/ MakeScattering
  \/ BuildDsCld
  \/ NewCase3dClouds \/ SetPhaseGridClouds \/ GeometryClouds \/ AtmosphereClouds
  \/ Clouds \/ GravityClouds \/ StarClouds \/ PhaseCurveClouds
  \/ ReplotCurve \/ PlotCurveClouds
  \/ Display \/ Raise

Spec == Init /\ [][Next]_vars

\* ------------------------------------------------------ reading the trace

\* The position of statement p in the script.
Pos(p) == CHOOSE i \in 1..Len(Script) : Script[i] = p

\* The script has run past statement p (whether or not it went on to finish).
Past(p) == Pos(pc) > Pos(p)

\* The positions in the trace of the calls of method fn on object o.
CallsOf(o, fn) == {i \in 1..Len(calls) : calls[i].obj = o /\ calls[i].fn = fn}

\* The method names called on object o, in order.
RECURSIVE FnsFrom(_, _)
FnsFrom(o, i) ==
  IF i > Len(calls) THEN <<>>
  ELSE (IF calls[i].obj = o THEN <<calls[i].fn>> ELSE <<>>) \o FnsFrom(o, i + 1)
FnsOn(o) == FnsFrom(o, 1)

IsPrefix(a, b) == Len(a) <= Len(b) /\ SubSeq(b, 1, Len(a)) = a

\* The arguments of the one call of fn on o.
ArgsOf(o, fn) == calls[CHOOSE i \in CallsOf(o, fn) : TRUE].args

CloudlessOrder == <<"phase_curve_geometry", "atmosphere_4d", "gravity", "star", "phase_curve">>
CloudyOrder == <<"phase_curve_geometry", "atmosphere_4d", "clouds_4d", "gravity", "star",
                 "phase_curve">>

\* ------------------------------------------------------------------ claims

\* C1: on each inputs object the calls come in the fixed order
\* phase_curve_geometry, atmosphere_4d, (cloudy only) clouds_4d, gravity, star,
\* phase_curve; phase_curve runs on an object only once geometry, atmosphere,
\* gravity and star are set on that object; and the opacity handed to star and
\* phase_curve has been loaded.
C1_FixedOrder ==
  /\ \A i \in 1..Len(calls) : calls[i].obj \in {case_3d, case_3d_clouds} \ {0}
  /\ case_3d # 0 => IsPrefix(FnsOn(case_3d), CloudlessOrder)
  /\ case_3d_clouds # 0 => IsPrefix(FnsOn(case_3d_clouds), CloudyOrder)
  /\ \A i \in 1..Len(calls) :
       /\ calls[i].fn \in {"star", "phase_curve"} => calls[i].args.opacity # None
       /\ calls[i].fn = "phase_curve" =>
            \A f \in {"phase_curve_geometry", "atmosphere_4d", "gravity", "star"} :
              \E j \in CallsOf(calls[i].obj, f) : j < i
  /\ \A out \in {allout, allout_clouds} \ {None} :
       /\ out[1].config.geometry # None /\ out[1].config.atmosphere # None
       /\ out[1].config.gravity # None /\ out[1].config.star # None

\* C1 witness: both pipelines have computed their phase curve.
C1_Witness ==
  /\ allout # None /\ allout_clouds # None
  /\ FnsOn(case_3d) = CloudlessOrder /\ FnsOn(case_3d_clouds) = CloudyOrder

\* C2: every clouds_4d call comes after an atmosphere_4d call and a
\* phase_curve_geometry call on the same object, and before any phase_curve
\* call on that object.
C2_CloudsAfterAtmosphere ==
  \A i \in 1..Len(calls) :
    calls[i].fn = "clouds_4d" =>
      /\ \E j \in CallsOf(calls[i].obj, "atmosphere_4d") : j < i
      /\ \E j \in CallsOf(calls[i].obj, "phase_curve_geometry") : j < i
      /\ \A j \in CallsOf(calls[i].obj, "phase_curve") : i < j

\* C2 witness: clouds_4d has run on an object whose phase curve was then computed.
C2_Witness ==
  \E i \in 1..Len(calls) :
    /\ calls[i].fn = "clouds_4d"
    /\ \E j \in CallsOf(calls[i].obj, "phase_curve") : i < j

\* The two set-ups agree on everything up to phase_curve: the phase grid and
\* geometry arguments, the atmosphere (dataset contents with H2O and H2, shift,
\* zero_point), gravity and star.
SameUpToPhaseCurve ==
  /\ ArgsOf(case_3d, "phase_curve_geometry") = ArgsOf(case_3d_clouds, "phase_curve_geometry")
  /\ objs[case_3d].atmosphere = objs[case_3d_clouds].atmosphere
  /\ {"H2O", "H2"} \subseteq DOMAIN objs[case_3d_clouds].atmosphere[1].profile.data_vars
  /\ {"H2O", "H2"} \subseteq DOMAIN objs[case_3d].atmosphere[1].profile.data_vars
  /\ ArgsOf(case_3d, "atmosphere_4d").shift = ArgsOf(case_3d_clouds, "atmosphere_4d").shift
  /\ ArgsOf(case_3d, "atmosphere_4d").zero_point
       = ArgsOf(case_3d_clouds, "atmosphere_4d").zero_point
  /\ ArgsOf(case_3d, "gravity") = ArgsOf(case_3d_clouds, "gravity")
  /\ ArgsOf(case_3d, "star") = ArgsOf(case_3d_clouds, "star")

\* C3, as claimed: once both phase curves are computed, the cloudy set-up is the
\* cloudless one in every argument, those of phase_curve included.
C3_SameSetup ==
  (allout # None /\ allout_clouds # None) =>
    /\ SameUpToPhaseCurve
    /\ ArgsOf(case_3d, "phase_curve") = ArgsOf(case_3d_clouds, "phase_curve")

\* What does hold of the two set-ups: they agree up to phase_curve, and the
\* phase_curve arguments agree except for full_output.
C3_SameSetupButFullOutput ==
  (allout # None /\ allout_clouds # None) =>
    /\ SameUpToPhaseCurve
    /\ ArgsOf(case_3d, "phase_curve").opacity = ArgsOf(case_3d_clouds, "phase_curve").opacity
    /\ ArgsOf(case_3d, "phase_curve").n_cpu = ArgsOf(case_3d_clouds, "phase_curve").n_cpu

\* C4: the shift of every atmosphere_4d call has one entry per phase of the
\* phase grid given to phase_curve_geometry on the same object, and every
\* entry is 0.
C4_ShiftZero ==
  \A i \in 1..Len(calls) :
    calls[i].fn = "atmosphere_4d" =>
      /\ \E j \in CallsOf(calls[i].obj, "phase_curve_geometry") :
           /\ j < i
           /\ Len(calls[i].args.shift) = Len(calls[j].args.phase_grid)
      /\ Len(calls[i].args.shift) = n_phases
      /\ \A k \in 1..Len(calls[i].args.shift) : calls[i].args.shift[k] = 0

\* C4 witness: atmosphere_4d has run on both objects with an 8-entry shift.
C4_Witness ==
  /\ case_3d # 0 /\ case_3d_clouds # 0
  /\ \A o \in {case_3d, case_3d_clouds} :
       \E i \in CallsOf(o, "atmosphere_4d") : Len(calls[i].args.shift) = 8

\* C5: every atmosphere_4d call on an object whose geometry was set with
\* calculation 'reflected' passes zero_point 'secondary_eclipse'.
C5_ZeroPoint ==
  \A i \in 1..Len(calls) :
    (/\ calls[i].fn = "atmosphere_4d"
     /\ \E j \in CallsOf(calls[i].obj, "phase_curve_geometry") :
          j < i /\ calls[j].args.calculation = "reflected")
      => calls[i].args.zero_point = "secondary_eclipse"

\* C5 witness: atmosphere_4d has run on the cloudy object after its reflected geometry.
C5_Witness ==
  /\ case_3d_clouds # 0
  /\ \E i \in CallsOf(case_3d_clouds, "atmosphere_4d") :
       \E j \in CallsOf(case_3d_clouds, "phase_curve_geometry") :
         j < i /\ calls[j].args.calculation = "reflected"

\* The minimum spatial resolution the notebook says picaso accepts (6 x 6).
MinResolution == 6

\* C6: every reflected phase_curve_geometry call has num_gangle >= 6 and
\* num_tangle >= 6.
C6_Resolution ==
  \A i \in 1..Len(calls) :
    (calls[i].fn = "phase_curve_geometry" /\ calls[i].args.calculation = "reflected") =>
      calls[i].args.num_gangle >= MinResolution /\ calls[i].args.num_tangle >= MinResolution

\* C6 witness: the geometry of both objects has been set.
C6_Witness ==
  /\ case_3d # 0 /\ case_3d_clouds # 0
  /\ CallsOf(case_3d, "phase_curve_geometry") # {}
  /\ CallsOf(case_3d_clouds, "phase_curve_geometry") # {}

\* The statements that call a method of a picaso inputs object.
MethodStatements == {153, 177, 214, 216, 241, 397, 400, 404, 420, 422, 424}

\* The statements before the interpreter's position: all of them at the end.
Executed == {p \in MethodStatements : pc = 0 \/ p < pc}

\* Nothing has been bound or called by the statement that raised.
NothingFromFailedStep ==
  status = "error" =>
    /\ pc = 62 => opacity = None
    /\ pc = 71 => gcm_out = 0
    /\ pc = 100 => ds_chem = 0
    /\ pc = 113 => all_gcm = 0 /\ ~("H2O" \in DOMAIN heap[gcm_out].data_vars)
    /\ pc = 144 => case_3d = 0
    /\ pc = 241 => allout = None
    /\ pc = 258 => all_curves = None
    /\ pc = 336 => ds_cld = 0
    /\ pc = 387 => case_3d_clouds = 0
    /\ pc = 424 => allout_clouds = None
    /\ pc = 439 => all_curves_clouds = None

\* C7: no retry and no recovery.  Every method is called at most once on each
\* object, the trace holds exactly the calls of the statements already run, a
\* statement that raised has bound nothing, and once a statement has raised no
\* further step of the script is taken.
C7_NoRecovery ==
  /\ [](/\ \A o \in {case_3d, case_3d_clouds} \ {0} :
            \A f \in {CloudyOrder[k] : k \in 1..Len(CloudyOrder)} :
              Cardinality(CallsOf(o, f)) <= 1
        /\ Len(calls) = Cardinality(Executed)
        /\ NothingFromFailedStep)
  /\ [][status # "error"]_vars

\* C7 witness: the cloudless phase_curve call has raised, leaving allout unbound.
C7_Witness == status = "error" /\ pc = 241 /\ allout = None /\ Len(calls) = 4

\* The cloud box of the claim: -90 < lon < 0, -50 < lat < 50, 0.00001 < p < 0.01 bar.
InBox(x) ==
  /\ -90 < lon[x[1]] /\ lon[x[1]] < 0
  /\ -50 < lat[x[2]] /\ lat[x[2]] < 50
  /\ 10 < pres[x[3]] /\ pres[x[3]] < 10000

\* C8: after the fill loops fake_opd, indexed (lon, lat, pressure, wno), is 10
\* exactly in the cells of the box, for every wavenumber, and 0 elsewhere; and
\* ds_cld holds it as opd on dims (lon, lat, pressure, wno) of those coordinates.
C8_Box ==
  Past(326) =>
    /\ DOMAIN fake_opd = Idx4(Len(lon), Len(lat), Len(pres), 10)
    /\ \A x \in DOMAIN fake_opd : fake_opd[x] = IF InBox(x) THEN 10 ELSE 0
    /\ ds_cld # 0 =>
         /\ heap[ds_cld].data_vars.opd.data = fake_opd
         /\ heap[ds_cld].data_vars.opd.dims = <<"lon", "lat", "pressure", "wno">>
         /\ heap[ds_cld].coords.lon = lon /\ heap[ds_cld].coords.lat = lat
         /\ heap[ds_cld].coords.pressure = pres

\* C8 witness: a finished array with a cloudy cell next to a clear cell that
\* lies exactly on the box's longitude edge, inside the box in latitude and pressure.
C8_Witness ==
  /\ Past(326)
  /\ \E x, y \in DOMAIN fake_opd :
       /\ fake_opd[x] = 10 /\ fake_opd[y] = 0
       /\ lon[y[1]] \in {-90, 0} /\ y[2] = x[2] /\ y[3] = x[3]

\* C9: in every cell of the GCM grid H2O + H2 = 1, 0.1 <= H2O <= 0.2 and
\* 0.8 <= H2 <= 0.9, and the chemistry arrays and ds_chem cover exactly the
\* GCM's lon, lat and pressure coordinates.
C9_Chemistry ==
  Past(97) =>
    LET g == heap[gcm_out].coords
        cells == Idx3(Len(g.lon), Len(g.lat), Len(g.pressure))
    IN /\ DOMAIN fake_chem_H2O = cells /\ DOMAIN fake_chem_H2 = cells
       /\ \A x \in cells :
            /\ fake_chem_H2O[x] + fake_chem_H2[x] = 10 * RandRes
            /\ RandRes <= fake_chem_H2O[x] /\ fake_chem_H2O[x] <= 2 * RandRes
            /\ 8 * RandRes <= fake_chem_H2[x] /\ fake_chem_H2[x] <= 9 * RandRes
       /\ ds_chem # 0 =>
            /\ heap[ds_chem].coords.lon = g.lon /\ heap[ds_chem].coords.lat = g.lat
            /\ heap[ds_chem].coords.pressure = g.pressure
            /\ heap[ds_chem].data_vars.H2O.data = fake_chem_H2O
            /\ heap[ds_chem].data_vars.H2.data = fake_chem_H2

\* C9 witness: a draw that gives one cell the least and another the greatest H2O.
C9_Witness ==
  /\ Past(113)
  /\ \E x, y \in DOMAIN fake_chem_H2O :
       fake_chem_H2O[x] = RandRes /\ fake_chem_H2O[y] = 2 * RandRes - 1

\* C10: the two cases are independent.  clouds_4d is only ever called on
\* case_3d_clouds, a different object from case_3d, whose configuration never
\* has clouds; allout exists before the cloudy pipeline starts and comes, like
\* the curve plotted as 'Cloudless', from a configuration without clouds; and
\* from the first statement of the cloudy pipeline on no step changes allout or
\* case_3d's configuration.
C10_Independent ==
  /\ [](/\ \A i \in 1..Len(calls) :
            calls[i].fn = "clouds_4d" =>
              calls[i].obj = case_3d_clouds /\ calls[i].obj # case_3d
        /\ case_3d # 0 => objs[case_3d].clouds = None
        /\ case_3d_clouds # 0 => case_3d_clouds # case_3d /\ allout # None
        /\ allout # None => allout[1].config.clouds = None
        /\ all_curves # None => ~all_curves[1].cloudy)
  /\ [][Pos(pc) >= Pos(387) =>
          allout' = allout /\ objs'[case_3d] = objs[case_3d]]_vars

\* C10 witness: the notebook has finished, with clouds mapped on case_3d_clouds
\* and both curves computed.
C10_Witness ==
  /\ pc = 0 /\ status = "running"
  /\ objs[case_3d_clouds].clouds # None
  /\ all_curves_clouds # None /\ all_curves_clouds[1].cloudy
  /\ all_curves # None

====
